---- MODULE Spec2Model ----
(***************************************************************************)
(* SmartLearn backend (src/backend/server.py): the startup model loading,  *)
(* the three POST handlers (summarize, translate, quiz), GET /history and  *)
(* GET /, and the saved_content collection they share.                     *)
(*                                                                         *)
(* The process runs one event loop: a handler runs without interruption    *)
(* from one await to the next, so every action below is the code between   *)
(* two awaits (or between an await and the response).  The database and    *)
(* the LLM API answer in actions of their own.                             *)
(*                                                                         *)
(* The handlers receive request objects that FastAPI has already validated *)
(* against the pydantic request models; the free text of a request and the *)
(* payload of a result take no part in any decision of the handlers and    *)
(* are left out of the records.                                            *)
(***************************************************************************)
EXTENDS Integers, Sequences, FiniteSets, TLC

VARIABLES
    models,         \* keys of the global dict `models`
    started,        \* TRUE once the startup hook load_models has returned
    emergent_key,   \* os.environ.get('EMERGENT_LLM_KEY'): "None", "" or a key
    now,            \* the wall clock, in microseconds
    clock_moves,    \* how often the wall clock has changed
    next_uuid,      \* uuid4() values handed out to documents so far
    saved_content,  \* the collection db.saved_content, in insertion order
    req,            \* per connection: the request being served and its response
    issued,         \* POST requests accepted so far
    succeeded       \* POST requests answered with 200 so far

vars == <<models, started, emergent_key, now, clock_moves, next_uuid,
          saved_content, req, issued, succeeded>>

----------------------------------------------------------------------------
(* Bounds of the model *)

MaxRequests == 2        \* POST requests in Spec
MaxQuizRequests == 2    \* POST requests in SpecQuiz
MaxTransRequests == 2   \* POST requests in SpecTranslate
MaxHistRequests == 22   \* POST requests in SpecHistory
MaxClock == 2           \* the wall clock runs over 0..MaxClock
MaxClockMoves == 1      \* times the wall clock changes
UsPerSec == 2           \* microseconds per second (scaled down from 10^6)

Slots == {1, 2}

----------------------------------------------------------------------------
(* Startup *)

LoadOrder ==
    << "summarizer", "translator_en_es", "translator_en_fr", "translator_en_de",
       "translator_en_it", "translator_en_pt", "translator_en_nl",
       "translator_en_ru", "translator_en_zh" >>

KeyValues == {"None", "", "sk-key"}

\* load_models run in the background: models keep arriving after the start
load_models_step_in_background ==
    /\ Cardinality(models) < Len(LoadOrder)
    /\ models' = models \cup {LoadOrder[Cardinality(models) + 1]}
    /\ UNCHANGED <<started, emergent_key, now, clock_moves, next_uuid,
                   saved_content, req, issued, succeeded>>

\* One pipeline(...) call of load_models succeeds and stores its model.
load_models_step ==
    /\ ~started
    /\ Cardinality(models) < Len(LoadOrder)
    /\ models' = models \cup {LoadOrder[Cardinality(models) + 1]}
    /\ UNCHANGED <<started, emergent_key, now, clock_moves, next_uuid,
                   saved_content, req, issued, succeeded>>

\* load_models returns: after the last model, or from the except clause when a
\* pipeline(...) call raised; the exception is logged and swallowed.
load_models_return ==
    /\ ~started
    /\ started' = TRUE
    /\ UNCHANGED <<models, emergent_key, now, clock_moves, next_uuid,
                   saved_content, req, issued, succeeded>>

----------------------------------------------------------------------------
(* Exceptions and responses *)

HTTPException(status, detail) ==
    [type |-> "HTTPException", status |-> status, detail |-> detail]

Raised(type, msg) == [type |-> type, status |-> 0, detail |-> msg]

\* str(e): starlette's HTTPException prints "<status>: <detail>"
Str(e) ==
    IF e.type = "HTTPException"
    THEN <<ToString(e.status), ": ">> \o e.detail
    ELSE e.detail

NoDoc == [id |-> 0, content_type |-> "none", timestamp |-> <<>>]

Idle ==
    [ kind |-> "none", pc |-> "idle", status |-> 0, detail |-> <<>>,
      trace |-> <<>>, pair |-> <<<<>>, <<>>>>, llm |-> <<>>, questions |-> <<>>,
      doc |-> NoDoc, body |-> <<>> ]

\* A connection is free when it serves no request; a new request is given the
\* lowest free connection (the connections are interchangeable).
Idling(s) == req[s].pc \in {"idle", "done"}

Free(s) == Idling(s) /\ \A t \in Slots : t < s => ~Idling(t)

\* The response to an exception that left the handler.  An HTTPException is
\* answered with its status and detail; anything else reaches the framework's
\* server-error middleware, which answers 500 "Internal Server Error".
ErrorResponse(r, e) ==
    IF e.type = "HTTPException"
    THEN [r EXCEPT !.pc = "done", !.status = e.status, !.detail = e.detail,
                   !.trace = Append(r.trace, "respond")]
    ELSE [r EXCEPT !.pc = "done", !.status = 500,
                   !.detail = <<"Internal Server Error">>,
                   !.trace = Append(r.trace, "respond")]

----------------------------------------------------------------------------
(* Time and documents *)

\* datetime.isoformat() of a UTC time: "<date>T<time>+00:00" when the
\* microsecond is 0, "<date>T<time>.<microsecond, 6 digits>+00:00" otherwise.
\* The seconds and the microseconds are zero padded, so each is one symbol
\* ordered as its number; "+" is character 43 and "." is character 46.
IsoFormat(t) ==
    IF t % UsPerSec = 0
    THEN <<t \div UsPerSec, 43>>
    ELSE <<t \div UsPerSec, 46, t % UsPerSec>>

NewDoc(content_type) ==
    [id |-> next_uuid + 1, content_type |-> content_type, timestamp |-> IsoFormat(now)]

\* the wall clock moves: forward as time passes, or to any other value when
\* the system time is adjusted
clock_moves_to(t) ==
    /\ clock_moves < MaxClockMoves
    /\ t /= now
    /\ now' = t
    /\ clock_moves' = clock_moves + 1
    /\ UNCHANGED <<models, started, emergent_key, next_uuid, saved_content,
                   req, issued, succeeded>>

\* insert_one(doc) called without await: the handler answers at once and the
\* document is never stored
AwaitInsert_not_awaited(r, content_type) ==
    [r EXCEPT !.pc = "done", !.status = 200, !.doc = NewDoc(content_type),
              !.trace = r.trace \o <<"persist", "respond">>]

\* A handler has built its document and awaits insert_one(doc).
AwaitInsert(r, content_type) ==
    [r EXCEPT !.pc = "await_insert", !.doc = NewDoc(content_type),
              !.trace = Append(r.trace, "persist")]

----------------------------------------------------------------------------
(* POST /summarize *)

\* the except clause of summarize_text
summarize_except(e) ==
    HTTPException(500, <<"Summarization failed: ">> \o Str(e))

\* summarize_text up to the await of insert_one; `outcomes` are the results the
\* summarization pipeline may have (TRUE: it returns, FALSE: it raises)
summarize_text(s, cap, outcomes) ==
    /\ started
    /\ Free(s)
    /\ issued < cap
    /\ issued' = issued + 1
    /\ LET r == [Idle EXCEPT !.kind = "summarize", !.trace = <<"validate">>]
       IN  IF "summarizer" \notin models
           THEN /\ req' = [req EXCEPT ![s] = ErrorResponse(r,
                              summarize_except(HTTPException(503,
                                  <<"Summarizer model not loaded">>)))]
                /\ UNCHANGED next_uuid
           ELSE \E ok \in outcomes :
                  LET r1 == [r EXCEPT !.trace = Append(r.trace, "invoke")]
                  IN  IF ok
                      THEN /\ req' = [req EXCEPT ![s] = AwaitInsert(r1, "summary")]
                           /\ next_uuid' = next_uuid + 1
                      ELSE /\ req' = [req EXCEPT ![s] = ErrorResponse(r1,
                                        summarize_except(Raised("Exception",
                                            <<"pipeline error">>)))]
                           /\ UNCHANGED next_uuid
    /\ UNCHANGED <<models, started, emergent_key, now, clock_moves,
                   saved_content, succeeded>>

----------------------------------------------------------------------------
(* POST /translate *)

\* str.lower() on the letters that occur in the language codes below
LowerChar(c) ==
    CASE c = "E" -> "e"
      [] c = "N" -> "n"
      [] c = "S" -> "s"
      [] c = "F" -> "f"
      [] c = "R" -> "r"
      [] c = "D" -> "d"
      [] OTHER -> c

Lower(str) == [i \in 1..Len(str) |-> LowerChar(str[i])]

\* model_map with both pairs wired to the Spanish model
model_map_one_model(lang_pair) ==
    CASE lang_pair = << <<"e", "n">>, <<"e", "s">> >> -> "translator_en_es"
      [] lang_pair = << <<"e", "n">>, <<"f", "r">> >> -> "translator_en_es"
      [] OTHER -> "KeyError"

\* model_map of translate_text: the language pairs wired to a model
model_map(lang_pair) ==
    CASE lang_pair = << <<"e", "n">>, <<"e", "s">> >> -> "translator_en_es"
      [] lang_pair = << <<"e", "n">>, <<"f", "r">> >> -> "translator_en_fr"
      [] OTHER -> "KeyError"

InModelMap(lang_pair) == model_map(lang_pair) /= "KeyError"

UnsupportedDetail == <<"Unsupported language pair. Supported: en->es, en->fr">>

\* translate_except without its "except HTTPException: raise" clause
translate_except_wraps(e) ==
    HTTPException(500, <<"Translation failed: ">> \o Str(e))

\* the except clauses of translate_text: an HTTPException is re-raised as it is
translate_except(e) ==
    IF e.type = "HTTPException"
    THEN e
    ELSE HTTPException(500, <<"Translation failed: ">> \o Str(e))

\* translate_text up to the await of insert_one, for a request with the
\* language codes p = <<source_lang, target_lang>>
translate_text(s, cap, p, outcomes) ==
    /\ started
    /\ Free(s)
    /\ issued < cap
    /\ issued' = issued + 1
    /\ LET r == [Idle EXCEPT !.kind = "translate", !.pair = p,
                             !.trace = <<"validate">>]
           lang_pair == <<Lower(p[1]), Lower(p[2])>>
       IN  IF ~InModelMap(lang_pair)
           THEN /\ req' = [req EXCEPT ![s] = ErrorResponse(r,
                              translate_except(HTTPException(400, UnsupportedDetail)))]
                /\ UNCHANGED next_uuid
           ELSE IF model_map(lang_pair) \notin models
           THEN /\ req' = [req EXCEPT ![s] = ErrorResponse(r,
                              translate_except(HTTPException(503,
                                  <<"Translation model not loaded">>)))]
                /\ UNCHANGED next_uuid
           ELSE \E ok \in outcomes :
                  LET r1 == [r EXCEPT !.trace = Append(r.trace, "invoke")]
                  IN  IF ok
                      THEN /\ req' = [req EXCEPT ![s] = AwaitInsert(r1, "translation")]
                           /\ next_uuid' = next_uuid + 1
                      ELSE /\ req' = [req EXCEPT ![s] = ErrorResponse(r1,
                                        translate_except(Raised("Exception",
                                            <<"pipeline error">>)))]
                           /\ UNCHANGED next_uuid
    /\ UNCHANGED <<models, started, emergent_key, now, clock_moves,
                   saved_content, succeeded>>

----------------------------------------------------------------------------
(* POST /quiz: the text of the LLM and its parsing *)

\* The answer of the LLM is a sequence of tokens: the fence (three backticks),
\* the language tag "json", white space, and the text of a document.
NoJson == [top |-> "none", questions |-> "absent", items |-> <<>>]

Fence == [tok |-> "fence", doc |-> NoJson]
Tag == [tok |-> "json", doc |-> NoJson]
Ws == [tok |-> "ws", doc |-> NoJson]
DocTok(d) == [tok |-> "doc", doc |-> d]

\* A document: not JSON at all ("garbage"), a JSON array, or a JSON object
\* whose member "questions" is absent, null, an object, a string or an array;
\* items is what iterating over that member yields (the elements of an
\* array, the keys of an object, the characters of a string).
Garbage == [top |-> "garbage", questions |-> "absent", items |-> <<>>]
TopArray == [top |-> "array", questions |-> "absent", items |-> <<>>]
Object(questions, items) == [top |-> "object", questions |-> questions, items |-> items]

\* An element of "questions": an object with exactly the four fields of
\* QuizQuestion ("good"), with a fifth field besides ("extra"), with a field
\* missing ("missing"), with options that are no list ("badtype"), or a string
\* ("str"); n tells the questions apart.
Item(k, n) == [k |-> k, n |-> n]

\* str.strip()
RECURSIVE LStrip(_)
LStrip(t) == IF t /= <<>> /\ Head(t) = Ws THEN LStrip(Tail(t)) ELSE t

RECURSIVE RStrip(_)
RStrip(t) ==
    IF t /= <<>> /\ t[Len(t)] = Ws THEN RStrip(SubSeq(t, 1, Len(t) - 1)) ELSE t

Strip(t) == RStrip(LStrip(t))

\* response_text.startswith(fence + "json")
StartsWithJsonFence(t) == Len(t) >= 2 /\ t[1] = Fence /\ t[2] = Tag

\* response_text.endswith(fence)
EndsWithFence(t) == t /= <<>> /\ t[Len(t)] = Fence

\* generate_quiz, from response.strip() to the second strip()
StripFence(response) ==
    LET t1 == Strip(response)
        t2 == IF StartsWithJsonFence(t1) THEN SubSeq(t1, 3, Len(t1)) ELSE t1
        t3 == IF EndsWithFence(t2) THEN SubSeq(t2, 1, Len(t2) - 1) ELSE t2
    IN  Strip(t3)

Result(ok, value, exc) == [ok |-> ok, value |-> value, exc |-> exc]
NoExc == Raised("none", <<>>)

\* json.loads: one JSON document, white space around it allowed
json_loads(text) ==
    LET t == Strip(text)
    IN  IF Len(t) = 1 /\ t[1].tok = "doc" /\ t[1].doc.top /= "garbage"
        THEN Result(TRUE, t[1].doc, NoExc)
        ELSE Result(FALSE, NoJson, Raised("JSONDecodeError", <<"Expecting value">>))

\* QuizQuestion(**q): pydantic ignores fields it does not know
QuizQuestion(q) ==
    CASE q.k \in {"good", "extra"} -> Result(TRUE, [question |-> q.n], NoExc)
      [] q.k \in {"missing", "badtype"} ->
            Result(FALSE, [question |-> 0], Raised("ValidationError", <<"validation error">>))
      [] OTHER ->
            Result(FALSE, [question |-> 0], Raised("TypeError", <<"argument after ** must be a mapping">>))

\* [QuizQuestion(**q) for q in quiz_data["questions"]]
Questions(quiz_data) ==
    IF quiz_data.top /= "object"
    THEN Result(FALSE, <<>>, Raised("TypeError", <<"list indices must be integers">>))
    ELSE IF quiz_data.questions = "absent"
    THEN Result(FALSE, <<>>, Raised("KeyError", <<"questions">>))
    ELSE IF quiz_data.questions = "null"
    THEN Result(FALSE, <<>>, Raised("TypeError", <<"NoneType object is not iterable">>))
    ELSE LET items == quiz_data.items
             bad == {i \in 1..Len(items) : ~QuizQuestion(items[i]).ok}
         IN  IF bad = {}
             THEN Result(TRUE, [i \in 1..Len(items) |-> QuizQuestion(items[i]).value], NoExc)
             ELSE Result(FALSE, <<>>,
                         QuizQuestion(items[CHOOSE i \in bad : \A j \in bad : i <= j]).exc)

\* The except clauses of generate_quiz.  `import json` stands inside the try
\* block, after the call of the LLM: while it has not run, the local name json
\* is unbound, evaluating "except json.JSONDecodeError" raises
\* UnboundLocalError, and that exception leaves the handler.
quiz_except(json_bound, e) ==
    IF ~json_bound
    THEN Raised("UnboundLocalError", <<"cannot access local variable json">>)
    ELSE IF e.type = "JSONDecodeError"
    THEN HTTPException(500, <<"Failed to parse quiz response">>)
    ELSE HTTPException(500, <<"Quiz generation failed: ">> \o Str(e))

\* generate_quiz up to the await of chat.send_message
generate_quiz(s, cap) ==
    /\ started
    /\ Free(s)
    /\ issued < cap
    /\ issued' = issued + 1
    /\ LET r == [Idle EXCEPT !.kind = "quiz", !.trace = <<"validate">>]
       IN  IF emergent_key \in {"None", ""}
           THEN req' = [req EXCEPT ![s] = ErrorResponse(r,
                          quiz_except(FALSE, HTTPException(503,
                              <<"API key not configured">>)))]
           ELSE req' = [req EXCEPT ![s] =
                          [r EXCEPT !.pc = "await_llm",
                                    !.trace = Append(r.trace, "invoke")]]
    /\ UNCHANGED <<models, started, emergent_key, now, clock_moves, next_uuid,
                   saved_content, succeeded>>

\* chat.send_message raises
send_message_raises(s) ==
    /\ req[s].pc = "await_llm"
    /\ req' = [req EXCEPT ![s] = ErrorResponse(req[s],
                  quiz_except(FALSE, Raised("Exception", <<"LLM error">>)))]
    /\ UNCHANGED <<models, started, emergent_key, now, clock_moves, next_uuid,
                   saved_content, issued, succeeded>>

\* chat.send_message returns `response`: generate_quiz from there up to the
\* await of insert_one
send_message_returns(s, response) ==
    /\ req[s].pc = "await_llm"
    /\ LET r == [req[s] EXCEPT !.llm = response]
           quiz_data == json_loads(StripFence(response))
           questions == Questions(quiz_data.value)
       IN  IF ~quiz_data.ok
           THEN /\ req' = [req EXCEPT ![s] =
                             ErrorResponse(r, quiz_except(TRUE, quiz_data.exc))]
                /\ UNCHANGED next_uuid
           ELSE IF ~questions.ok
           THEN /\ req' = [req EXCEPT ![s] =
                             ErrorResponse(r, quiz_except(TRUE, questions.exc))]
                /\ UNCHANGED next_uuid
           ELSE /\ req' = [req EXCEPT ![s] =
                             AwaitInsert([r EXCEPT !.questions = questions.value], "quiz")]
                /\ next_uuid' = next_uuid + 1
    /\ UNCHANGED <<models, started, emergent_key, now, clock_moves,
                   saved_content, issued, succeeded>>

----------------------------------------------------------------------------
(* The collection, and the handlers after insert_one *)

\* the except clause of the handler that serves r
Except(r, e) ==
    CASE r.kind = "summarize" -> summarize_except(e)
      [] r.kind = "translate" -> translate_except(e)
      [] OTHER -> quiz_except(TRUE, e)

\* the database stores the document, giving it an _id
insert_one(s) ==
    /\ req[s].pc = "await_insert"
    /\ saved_content' = Append(saved_content,
                               req[s].doc @@ ("_id" :> Len(saved_content) + 1))
    /\ req' = [req EXCEPT ![s].pc = "inserted"]
    /\ UNCHANGED <<models, started, emergent_key, now, clock_moves, next_uuid,
                   issued, succeeded>>

\* insert_one raises after the database has stored the document
insert_one_raises_after_write(s) ==
    /\ req[s].pc = "await_insert"
    /\ saved_content' = Append(saved_content,
                               req[s].doc @@ ("_id" :> Len(saved_content) + 1))
    /\ req' = [req EXCEPT ![s] = ErrorResponse(req[s],
                  Except(req[s], Raised("Exception", <<"database error">>)))]
    /\ UNCHANGED <<models, started, emergent_key, now, clock_moves, next_uuid,
                   issued, succeeded>>

\* insert_one raises (the database cannot be reached): nothing is stored
insert_one_raises(s) ==
    /\ req[s].pc = "await_insert"
    /\ req' = [req EXCEPT ![s] = ErrorResponse(req[s],
                  Except(req[s], Raised("Exception", <<"database error">>)))]
    /\ UNCHANGED <<models, started, emergent_key, now, clock_moves, next_uuid,
                   saved_content, issued, succeeded>>

\* the handler resumes after insert_one and returns its response
handler_returns(s) ==
    /\ req[s].pc = "inserted"
    /\ req' = [req EXCEPT ![s] =
                 [req[s] EXCEPT !.pc = "done", !.status = 200,
                                !.body = IF req[s].kind = "quiz"
                                         THEN req[s].questions ELSE <<>>,
                                !.trace = Append(req[s].trace, "respond")]]
    /\ succeeded' = succeeded + 1
    /\ UNCHANGED <<models, started, emergent_key, now, clock_moves, next_uuid,
                   saved_content, issued>>

----------------------------------------------------------------------------
(* GET /history and GET / *)

HistoryLimit == 20

\* comparison of two strings, symbol by symbol: a < b when, at the first
\* place where they differ, a has ended or has the smaller symbol
StrLess(a, b) ==
    \E i \in 1..Len(b) :
        /\ \A j \in 1..(i - 1) : j <= Len(a) /\ a[j] = b[j]
        /\ i > Len(a) \/ a[i] < b[i]

Reverse(seq) == [i \in 1..Len(seq) |-> seq[Len(seq) + 1 - i]]

\* sort("timestamp", -1): the documents by descending timestamp, the timestamps
\* compared as strings: the documents with the greatest timestamp, then the
\* rest sorted in the same way.  The order of documents with equal timestamps
\* is not specified; tie chooses between the two orders a scan of the
\* collection gives (TRUE: in the order stored, FALSE: in the reverse order).
RECURSIVE SortDescending(_, _)
SortDescending(docs, tie) ==
    IF docs = <<>> THEN <<>>
    ELSE LET stamps == {docs[i].timestamp : i \in 1..Len(docs)}
             greatest == CHOOSE t \in stamps : \A u \in stamps : ~StrLess(t, u)
             first == SelectSeq(docs, LAMBDA d : d.timestamp = greatest)
             rest == SelectSeq(docs, LAMBDA d : d.timestamp /= greatest)
         IN  (IF tie THEN first ELSE Reverse(first)) \o SortDescending(rest, tie)

\* the projection {"_id": 0}
Project(d) == [k \in DOMAIN d \ {"_id"} |-> d[k]]

Limit(docs, n) == SubSeq(docs, 1, IF Len(docs) < n THEN Len(docs) ELSE n)

\* the query without its sort
Find_unsorted(tie) ==
    LET found == Limit(saved_content, HistoryLimit)
    IN  [i \in 1..Len(found) |-> Project(found[i])]

\* find({}, {"_id": 0}).sort("timestamp", -1).limit(20).to_list(20)
Find(tie) ==
    LET found == Limit(SortDescending(saved_content, tie), HistoryLimit)
    IN  [i \in 1..Len(found) |-> Project(found[i])]

\* get_history; the query is answered (ok) or raises
get_history(s, ok, tie) ==
    /\ started
    /\ Free(s)
    /\ LET r == [Idle EXCEPT !.kind = "history", !.trace = <<"validate", "invoke">>]
       IN  IF ok
           THEN req' = [req EXCEPT ![s] =
                          [r EXCEPT !.pc = "done", !.status = 200, !.body = Find(tie),
                                    !.trace = Append(r.trace, "respond")]]
           ELSE req' = [req EXCEPT ![s] = ErrorResponse(r,
                          HTTPException(500, <<"Failed to fetch history">>))]
    /\ UNCHANGED <<models, started, emergent_key, now, clock_moves, next_uuid,
                   saved_content, issued, succeeded>>

root(s) ==
    /\ started
    /\ Free(s)
    /\ req' = [req EXCEPT ![s] =
                 [Idle EXCEPT !.kind = "root", !.pc = "done", !.status = 200,
                              !.detail = <<"SmartLearn API is running">>,
                              !.trace = <<"respond">>]]
    /\ UNCHANGED <<models, started, emergent_key, now, clock_moves, next_uuid,
                   saved_content, issued, succeeded>>

----------------------------------------------------------------------------
(* Inputs *)

en == <<"e", "n">>
es == <<"e", "s">>
fr == <<"f", "r">>
de == <<"d", "e">>

LangPairs ==
    { <<en, es>>, <<<<"E", "N">>, <<"E", "s">>>>, <<en, fr>>, <<en, <<"F", "R">>>>,
      <<en, de>>, <<<<"E", "N">>, <<"D", "E">>>>, <<es, en>>, <<en, en>> }

Q1 == Item("good", 1)
Q2 == Item("good", 2)

Documents ==
    { Garbage, TopArray,
      Object("absent", <<>>), Object("null", <<>>),
      Object("object", <<>>), Object("object", <<Item("str", 0)>>),
      Object("string", <<>>), Object("string", <<Item("str", 0)>>),
      Object("array", <<>>), Object("array", <<Q1>>), Object("array", <<Q1, Q2>>),
      Object("array", <<Item("extra", 1)>>), Object("array", <<Item("str", 0)>>),
      Object("array", <<Q1, Item("missing", 2)>>),
      Object("array", <<Item("badtype", 1), Q2>>) }

\* the ways the LLM wraps a document d
Wrappings(d) ==
    { <<DocTok(d)>>,
      <<Fence, Tag, Ws, DocTok(d), Ws, Fence>>,
      <<Ws, Fence, Tag, Ws, DocTok(d), Ws, Fence, Ws>>,
      <<Fence, Ws, DocTok(d), Ws, Fence>>,
      <<DocTok(d), Ws, Fence>>,
      <<Fence, Tag, Ws, DocTok(d)>> }

LLMResponses == UNION {Wrappings(d) : d \in Documents}

\* the language pairs and the answers of the LLM in Spec, where the handlers
\* run side by side
FewPairs == { <<en, es>>, <<<<"E", "N">>, <<"F", "R">>>>, <<en, de>> }

FewResponses ==
    { <<DocTok(Garbage)>>, <<DocTok(Object("array", <<Q1>>))>>,
      <<Fence, Tag, Ws, DocTok(Object("array", <<Q1, Item("missing", 2)>>)), Ws, Fence>> }

----------------------------------------------------------------------------
(* Specifications *)

Init ==
    /\ models = {}
    /\ started = FALSE
    /\ emergent_key \in KeyValues
    /\ now = 0
    /\ clock_moves = 0
    /\ next_uuid = 0
    /\ saved_content = <<>>
    /\ req = [s \in Slots |-> Idle]
    /\ issued = 0
    /\ succeeded = 0

Next ==
    \/ load_models_step
    \/ load_models_return
    \/ \E s \in Slots : summarize_text(s, MaxRequests, BOOLEAN)
    \/ \E s \in Slots, p \in FewPairs : translate_text(s, MaxRequests, p, BOOLEAN)
    \/ \E s \in Slots : generate_quiz(s, MaxRequests)
    \/ \E s \in Slots : send_message_raises(s)
    \/ \E s \in Slots, response \in FewResponses : send_message_returns(s, response)
    \/ \E s \in Slots : insert_one(s)
    \/ \E s \in Slots : insert_one_raises(s)
    \/ \E s \in Slots : handler_returns(s)
    \/ \E s \in Slots, ok \in BOOLEAN, tie \in BOOLEAN : get_history(s, ok, tie)
    \/ \E s \in Slots : root(s)

\* the whole service, two requests at a time
Spec == Init /\ [][Next]_vars

\* POST /translate alone, one request at a time, every language pair
NextTranslate ==
    \/ load_models_step
    \/ load_models_return
    \/ \E p \in LangPairs : translate_text(1, MaxTransRequests, p, BOOLEAN)
    \/ insert_one(1)
    \/ insert_one_raises(1)
    \/ handler_returns(1)

SpecTranslate == Init /\ [][NextTranslate]_vars

\* POST /quiz alone, one request at a time, every answer of the LLM
NextQuiz ==
    \/ load_models_step
    \/ load_models_return
    \/ generate_quiz(1, MaxQuizRequests)
    \/ send_message_raises(1)
    \/ \E response \in LLMResponses : send_message_returns(1, response)
    \/ insert_one(1)
    \/ insert_one_raises(1)
    \/ handler_returns(1)

SpecQuiz == Init /\ [][NextQuiz]_vars

\* GET /history over a collection that outgrows the limit: after a complete
\* startup, summaries are saved one at a time while the wall clock moves
InitHistory ==
    /\ models = {LoadOrder[i] : i \in 1..Len(LoadOrder)}
    /\ started = TRUE
    /\ emergent_key = "sk-key"
    /\ now \in 0..MaxClock
    /\ clock_moves = 0
    /\ next_uuid = 0
    /\ saved_content = <<>>
    /\ req = [s \in Slots |-> Idle]
    /\ issued = 0
    /\ succeeded = 0

NextHistory ==
    \/ \E t \in 0..MaxClock : clock_moves_to(t)
    \/ summarize_text(1, MaxHistRequests, {TRUE})
    \/ insert_one(1)
    \/ handler_returns(1)
    \/ \E ok \in BOOLEAN, tie \in BOOLEAN : get_history(1, ok, tie)

SpecHistory == InitHistory /\ [][NextHistory]_vars

----------------------------------------------------------------------------
(* The claims *)

Steps(r) == {r.trace[i] : i \in 1..Len(r.trace)}

Stored(doc) == \E k \in 1..Len(saved_content) : saved_content[k].id = doc.id

PostKinds == {"summarize", "translate", "quiz"}

\* C1: a POST /summarize handled while the registry has no "summarizer" is
\* answered with status 503, the pipeline is not invoked and no record is
\* inserted.
C1_Claim ==
    \A s \in Slots :
        (req[s].kind = "summarize" /\ req[s].pc = "done" /\ "summarizer" \notin models)
        => /\ req[s].status = 503
           /\ "invoke" \notin Steps(req[s])
           /\ "persist" \notin Steps(req[s])
           /\ ~Stored(req[s].doc)

\* C2: a POST /quiz handled while EMERGENT_LLM_KEY is unset or empty is
\* answered with status 503, the LLM is not called and no record is inserted.
C2_Claim ==
    \A s \in Slots :
        (req[s].kind = "quiz" /\ req[s].pc /= "idle" /\ emergent_key \in {"None", ""})
        => /\ req[s].pc = "done"
           /\ req[s].status = 503
           /\ "invoke" \notin Steps(req[s])
           /\ "persist" \notin Steps(req[s])
           /\ ~Stored(req[s].doc)

\* C3: a POST /translate whose lowercased language pair is neither (en, es)
\* nor (en, fr) is answered with status 400 and the one fixed detail, whatever
\* models are loaded; no model is invoked and no record is inserted.
C3_Theorem ==
    \A s \in Slots :
        ( /\ req[s].kind = "translate"
          /\ <<Lower(req[s].pair[1]), Lower(req[s].pair[2])>> \notin {<<en, es>>, <<en, fr>>} )
        => /\ req[s].pc = "done"
           /\ req[s].status = 400
           /\ req[s].detail = <<"Unsupported language pair. Supported: en->es, en->fr">>
           /\ "invoke" \notin Steps(req[s])
           /\ "persist" \notin Steps(req[s])
           /\ req[s].doc = NoDoc
           /\ Len(saved_content) = succeeded

\* C3 happens: EN->DE is refused although translator_en_de is loaded and a
\* translation has been stored before.
C3_Witness ==
    /\ req[1].kind = "translate"
    /\ req[1].pair = <<<<"E", "N">>, <<"D", "E">>>>
    /\ req[1].status = 400
    /\ "translator_en_de" \in models
    /\ saved_content /= <<>>

\* the document an answer of the LLM carries
DocOf(response) ==
    response[CHOOSE i \in 1..Len(response) : response[i].tok = "doc"].doc

\* the answer is no JSON, has no list "questions", or has a question that does
\* not match QuizQuestion
MalformedDoc(d) ==
    \/ d.top /= "object"
    \/ d.questions /= "array"
    \/ \E i \in 1..Len(d.items) : d.items[i].k \in {"missing", "badtype", "str"}

\* C4: a POST /quiz whose LLM output is malformed is answered with status 500,
\* with no questions at all, and no record is inserted.
C4_Claim ==
    \A s \in Slots :
        (req[s].kind = "quiz" /\ req[s].llm /= <<>> /\ MalformedDoc(DocOf(req[s].llm)))
        => /\ req[s].pc = "done"
           /\ req[s].status = 500
           /\ req[s].body = <<>>
           /\ "persist" \notin Steps(req[s])
           /\ ~Stored(req[s].doc)

\* datetime.fromisoformat: the time a timestamp was made from
Created(timestamp) ==
    timestamp[1] * UsPerSec + (IF Len(timestamp) = 3 THEN timestamp[3] ELSE 0)

\* C5: GET /history returns at most 20 records: the min(20, n) records with
\* the latest timestamps among the n stored, newest first, each without _id.
C5_Theorem ==
    (req[1].kind = "history" /\ req[1].status = 200)
    => LET body == req[1].body
           n == Len(saved_content)
           returned == {body[i].id : i \in 1..Len(body)}
       IN  /\ Len(body) <= 20
           /\ Len(body) = IF n < 20 THEN n ELSE 20
           /\ Cardinality(returned) = Len(body)
           /\ \A i \in 1..Len(body) :
                /\ DOMAIN body[i] = {"id", "content_type", "timestamp"}
                /\ \E k \in 1..n :
                     \A f \in DOMAIN body[i] : saved_content[k][f] = body[i][f]
           /\ \A i, j \in 1..Len(body) :
                i < j => Created(body[i].timestamp) >= Created(body[j].timestamp)
           /\ \A k \in 1..n :
                saved_content[k].id \notin returned
                => \A i \in 1..Len(body) :
                     Created(saved_content[k].timestamp) <= Created(body[i].timestamp)

\* C5 happens: more than 20 records are stored, the newest of them was not
\* the last one stored, and a record stored later than a returned one is left out.
C5_Witness ==
    /\ req[1].kind = "history"
    /\ req[1].status = 200
    /\ Len(saved_content) > 20
    /\ Len(req[1].body) = 20
    /\ \E k \in 1..Len(saved_content) :
         /\ \A i \in 1..20 : req[1].body[i].id /= saved_content[k].id
         /\ \E i \in 1..20 : req[1].body[i].id < saved_content[k].id

\* C6, in every state: the collection holds one record per POST request
\* answered with 200 plus one per request that has finished its insert and not
\* yet answered, and no two records come from one request.
C6_Count ==
    /\ Len(saved_content) = succeeded + Cardinality({s \in Slots : req[s].pc = "inserted"})
    /\ \A i, j \in 1..Len(saved_content) :
         saved_content[i].id = saved_content[j].id => i = j

\* C6, in every step: the records stored stay as they are, at most one is
\* added, and GET /history and GET / add none.
C6_Step ==
    /\ \/ saved_content' = saved_content
       \/ /\ Len(saved_content') = Len(saved_content) + 1
          /\ SubSeq(saved_content', 1, Len(saved_content)) = saved_content
    /\ \A s \in Slots :
         (req'[s] /= req[s] /\ req'[s].kind \in {"history", "root"})
         => saved_content' = saved_content

\* C6: the number of records equals the number of successful POST requests
\* (plus the in-flight ones past their insert), each request inserts at most
\* one record, and no handler updates or deletes a record.
C6_Theorem == [](C6_Count) /\ [][C6_Step]_vars

\* C6 happens: two requests in flight at once, one answered with 200 and one
\* past its insert and not yet answered.
C6_Witness ==
    /\ succeeded = 1
    /\ Len(saved_content) = 2
    /\ \E s \in Slots : req[s].pc = "inserted"

\* C7: the steps of a POST request come in the order validate, invoke,
\* persist, respond; the pipeline or LLM is invoked at most once; the insert
\* follows a successful invocation; a 200 is sent only after the insert is
\* done; a failed invocation or insert ends the request with an error and no
\* later step.
C7_Theorem ==
    \A s \in Slots :
        req[s].kind \in PostKinds
        => LET r == req[s]
           IN  /\ r.trace \in { <<"validate">>,
                                <<"validate", "respond">>,
                                <<"validate", "invoke">>,
                                <<"validate", "invoke", "respond">>,
                                <<"validate", "invoke", "persist">>,
                                <<"validate", "invoke", "persist", "respond">> }
               /\ (r.pc = "done") = ("respond" \in Steps(r))
               /\ r.status = 200
                    => r.trace = <<"validate", "invoke", "persist", "respond">> /\ Stored(r.doc)
               /\ (r.pc = "done" /\ r.status /= 200)
                    => r.status \in {400, 500, 503} /\ ~Stored(r.doc)
               /\ Stored(r.doc) => "persist" \in Steps(r)

\* C7 happens: one request answered 200 after its insert, another ended by a
\* failed insert.
C7_Witness ==
    /\ req[1].kind \in PostKinds
    /\ req[1].status = 200
    /\ req[2].kind \in PostKinds
    /\ req[2].trace = <<"validate", "invoke", "persist", "respond">>
    /\ req[2].status = 500

\* C8: after a startup that failed partway, a POST /translate for en->es or
\* en->fr whose model is not in the registry is answered with status 503 and
\* detail "Translation model not loaded" and inserts no record, and one whose
\* model is loaded is served: its model is invoked.
C8_Theorem ==
    \A s \in Slots :
        LET lang_pair == <<Lower(req[s].pair[1]), Lower(req[s].pair[2])>>
            key == IF lang_pair = <<en, es>> THEN "translator_en_es" ELSE "translator_en_fr"
        IN  (req[s].kind = "translate" /\ lang_pair \in {<<en, es>>, <<en, fr>>})
            => IF key \in models
               THEN /\ "invoke" \in Steps(req[s])
                    /\ req[s].status \in {0, 200, 500}
                    /\ req[s].status = 500 => req[s].detail[1] = "Translation failed: "
               ELSE /\ req[s].pc = "done"
                    /\ req[s].status = 503
                    /\ req[s].detail = <<"Translation model not loaded">>
                    /\ "invoke" \notin Steps(req[s])
                    /\ "persist" \notin Steps(req[s])
                    /\ req[s].doc = NoDoc

\* C8 happens: the startup stopped after translator_en_es; an en->es request
\* has been served and stored, and an en->fr request is refused with 503.
C8_Witness ==
    /\ models = {"summarizer", "translator_en_es"}
    /\ Len(saved_content) = 1
    /\ saved_content[1].content_type = "translation"
    /\ req[1].kind = "translate"
    /\ Lower(req[1].pair[2]) = fr
    /\ req[1].status = 503

\* C9: once the startup has finished, no step adds, removes or replaces an
\* entry of the registry.
C9_Theorem == [][started => models' = models]_vars

\* C9 happens: after a startup that loaded some models, requests of both
\* connections have been handled and records stored.
C9_Witness ==
    /\ started
    /\ "translator_en_es" \in models
    /\ "translator_en_fr" \notin models
    /\ Len(saved_content) = 2
    /\ \A s \in Slots : req[s].pc = "done"

\* a valid quiz document inside a fence, the opening fence with or without
\* the tag "json"
FencedValid(response) ==
    /\ ~MalformedDoc(DocOf(response))
    /\ response \in { <<Fence, Tag, Ws, DocTok(DocOf(response)), Ws, Fence>>,
                      <<Fence, Ws, DocTok(DocOf(response)), Ws, Fence>> }

\* C10: an LLM output that is a valid quiz document inside a markdown fence,
\* with or without the tag "json", is parsed to the questions of the bare
\* document and answered successfully with them.
C10_Claim ==
    \A s \in Slots :
        (req[s].kind = "quiz" /\ req[s].llm /= <<>> /\ FencedValid(req[s].llm))
        => LET d == DocOf(req[s].llm)
               expected == [i \in 1..Len(d.items) |-> [question |-> d.items[i].n]]
           IN  /\ "persist" \in Steps(req[s])
               /\ req[s].questions = expected
               /\ req[s].status = 200 => req[s].body = expected
               /\ (req[s].pc = "done" /\ Stored(req[s].doc)) => req[s].status = 200
====
